---- MODULE Spec2Model ----
(***************************************************************************)
(* powermon (main.go): a terminal dashboard fed by two producers.          *)
(*   main       reads powermetrics line by line, writes the silicon power  *)
(*              fields and BatteryPct under data.mu.Lock, and calls        *)
(*              render() on every line that starts with "***";             *)
(*   pollIoreg  runs ioreg every 5 s and writes the charger and battery    *)
(*              fields under data.mu.Lock;                                 *)
(*   render     reads the whole snapshot under data.mu.RLock;              *)
(*   the signal goroutine kills powermetrics, shows the cursor, exits 0.   *)
(*                                                                         *)
(* Text is modelled as sequences of one-character strings.  A powermetrics *)
(* line is a record of its tokens, an ioreg dump a sequence of key/value   *)
(* entries; the regular expressions and the strconv conversions are        *)
(* computed on the characters of the value token.                          *)
(***************************************************************************)
EXTENDS Integers, Sequences, FiniteSets, TLC

\* ------------------------------------------------------------------ bounds
MaxLines == 2          \* lines scanner.Scan() delivers in one run
MaxWidth == 44         \* widest bar tried (render asks for 20, 40 and 44 cells)
PctOver == 20          \* how far below 0 and above 100 the percentages tried go
MaxContent == 60       \* most visible runes in a content given to line
MaxPolls == 2          \* ioreg invocations in one run

\* ------------------------------------------------------- strconv and regexp
Digits == {"0", "1", "2", "3", "4", "5", "6", "7", "8", "9"}

DigitVal(c) ==
  CASE c = "0" -> 0 [] c = "1" -> 1 [] c = "2" -> 2 [] c = "3" -> 3
    [] c = "4" -> 4 [] c = "5" -> 5 [] c = "6" -> 6 [] c = "7" -> 7
    [] c = "8" -> 8 [] c = "9" -> 9

\* value of a sequence of decimal digits (n = n*10 + int(ch))
RECURSIVE NatVal(_)
NatVal(t) ==
  IF t = <<>> THEN 0
  ELSE NatVal(SubSeq(t, 1, Len(t) - 1)) * 10 + DigitVal(t[Len(t)])

\* the longest prefix of t made of digits: what a greedy \d+ captures
RECURSIVE DigitPrefix(_)
DigitPrefix(t) ==
  IF t = <<>> \/ Head(t) \notin Digits THEN <<>>
  ELSE <<Head(t)>> \o DigitPrefix(Tail(t))

RECURSIVE StripZeros(_)
StripZeros(t) ==
  IF t # <<>> /\ Head(t) = "0" THEN StripZeros(Tail(t)) ELSE t

\* a > b for two digit sequences of the same length
RECURSIVE DigitsGreater(_, _)
DigitsGreater(a, b) ==
  IF a = <<>> THEN FALSE
  ELSE IF DigitVal(Head(a)) # DigitVal(Head(b))
       THEN DigitVal(Head(a)) > DigitVal(Head(b))
       ELSE DigitsGreater(Tail(a), Tail(b))

\* 1<<63 - 1, the largest int of the 64-bit targets, digit by digit
MaxInt64Digits ==
  <<"9", "2", "2", "3", "3", "7", "2", "0", "3", "6",
    "8", "5", "4", "7", "7", "5", "8", "0", "7">>

\* The value strconv returns with ErrRange.  TLC's integers are 32 bits
\* wide, so the saturated int is represented by the largest integer TLC
\* has; the overflow test itself is made on the digits, against 1<<63 - 1.
MaxInt == 2147483647

\* the magnitude m (digits) does not fit: above 1<<63 - 1, or above 1<<63
\* for a negative number
OutOfRange(m, neg) ==
  LET sig == StripZeros(m)
  IN  \/ Len(sig) > 19
      \/ /\ Len(sig) = 19
         /\ DigitsGreater(sig, MaxInt64Digits)
         /\ ~(neg /\ sig = SubSeq(MaxInt64Digits, 1, 18) \o <<"8">>)

\* strconv.Atoi: [val, err].  Strings shorter than 19 bytes take the fast
\* path and cannot overflow; longer ones go through ParseInt, which returns
\* the largest magnitude with ErrRange, and 0 with ErrSyntax.
Atoi(t) ==
  LET neg == t # <<>> /\ Head(t) = "-"
      m   == IF t # <<>> /\ Head(t) \in {"-", "+"} THEN Tail(t) ELSE t
  IN  IF m = <<>> \/ \E i \in 1..Len(m) : m[i] \notin Digits
      THEN [val |-> 0, err |-> TRUE]
      ELSE IF Len(t) >= 19 /\ OutOfRange(m, neg)
      THEN [val |-> IF neg THEN -MaxInt - 1 ELSE MaxInt, err |-> TRUE]
      ELSE [val |-> IF neg THEN -NatVal(StripZeros(m))
                    ELSE NatVal(StripZeros(m)),
            err |-> FALSE]

\* float64 values are kept in fixed point, in tenths: the inputs carry at
\* most one fractional digit, which this represents exactly.
FloatScale == 10

\* strconv.ParseFloat on a text of digits and dots: [val, err].  More than
\* one dot, or no digit at all, is ErrSyntax and the value returned is 0.
ParseFloat(t) ==
  LET dots == {i \in 1..Len(t) : t[i] = "."}
      bad  == \E i \in 1..Len(t) : t[i] \notin Digits \cup {"."}
  IN  IF bad \/ Cardinality(dots) > 1 \/ Cardinality(dots) = Len(t)
      THEN [val |-> 0, err |-> TRUE]
      ELSE LET d    == IF dots = {} THEN Len(t) + 1 ELSE CHOOSE i \in dots : TRUE
               ip   == SubSeq(t, 1, d - 1)
               fp   == SubSeq(t, d + 1, Len(t))
               frac == IF fp = <<>> THEN 0 ELSE DigitVal(fp[1])
           IN  [val |-> NatVal(ip) * FloatScale + frac, err |-> FALSE]

\* t starts with the characters of p
IsPrefix(p, t) == Len(p) <= Len(t) /\ SubSeq(t, 1, Len(p)) = p

Yes == <<"Y", "e", "s">>
No  == <<"N", "o">>

\* What the capture group of a pattern takes from the value token that
\* follows the pattern's literal; <<>> when the group cannot match there.
\*   "digits"  (\d+)      "signed"  (-?\d+)      "yesno"  (Yes|No)
Capture(kind, t) ==
  CASE kind = "digits" -> DigitPrefix(t)
    [] kind = "signed" ->
         IF t # <<>> /\ Head(t) = "-" /\ DigitPrefix(Tail(t)) # <<>>
         THEN <<"-">> \o DigitPrefix(Tail(t))
         ELSE DigitPrefix(t)
    [] kind = "yesno"  ->
         IF IsPrefix(Yes, t) THEN Yes
         ELSE IF IsPrefix(No, t) THEN No ELSE <<>>

\* the patterns map of pollIoreg: the literal (key and separator) and the
\* capture group
patterns ==
  [watts    |-> [key |-> "\"Watts\"",                  sep |-> "=",   cap |-> "digits"],
   adapterV |-> [key |-> "\"AdapterVoltage\"",         sep |-> "=",   cap |-> "digits"],
   adapterA |-> [key |-> "\"Current\"",                sep |-> "=",   cap |-> "digits"],
   batteryV |-> [key |-> "\"AppleRawBatteryVoltage\"", sep |-> " = ", cap |-> "digits"],
   batteryA |-> [key |-> "\"Amperage\"",               sep |-> " = ", cap |-> "signed"],
   temp     |-> [key |-> "\"Temperature\"",            sep |-> " = ", cap |-> "digits"],
   charging |-> [key |-> "\"IsCharging\"",             sep |-> " = ", cap |-> "yesno"],
   external |-> [key |-> "\"ExternalConnected\"",      sep |-> " = ", cap |-> "yesno"]]

\* re.FindStringSubmatch(s)[1] on a dump s (a sequence of entries
\* [key, sep, val]): the capture of the leftmost entry the pattern matches,
\* <<>> when there is none (len(m) > 1 is false).
FindStringSubmatch(re, s) ==
  LET hits == {i \in 1..Len(s) :
                 /\ s[i].key = re.key
                 /\ s[i].sep = re.sep
                 /\ Capture(re.cap, s[i].val) # <<>>}
  IN  IF hits = {} THEN <<>>
      ELSE LET i == CHOOSE j \in hits : \A k \in hits : j <= k
           IN  Capture(re.cap, s[i].val)

\* A local variable: e(x) for x := v, with v computed once.
With(v, e(_)) == CHOOSE r \in {e(x) : x \in {v}} : TRUE

\* extractInt without the upper end of the range
extractInt_NoMax(s, re, min, max) ==
  LET ranged(a) ==
        IF ~a.err /\ a.val >= min
        THEN [v |-> a.val, ok |-> TRUE]
        ELSE [v |-> 0, ok |-> FALSE]
      found(m) ==
        IF m # <<>> THEN With(Atoi(m), ranged) ELSE [v |-> 0, ok |-> FALSE]
  IN  With(FindStringSubmatch(re, s), found)

\* Only returns value if in sane range, otherwise returns (0, false):
\*   m := re.FindStringSubmatch(s); if len(m) > 1 {
\*     v, _ := strconv.Atoi(m[1]); if v >= min && v <= max { return v, true } }
extractInt(s, re, min, max) ==
  LET ranged(a) ==
        IF ~a.err /\ a.val >= min /\ a.val <= max
        THEN [v |-> a.val, ok |-> TRUE]
        ELSE [v |-> 0, ok |-> FALSE]
      found(m) ==
        IF m # <<>> THEN With(Atoi(m), ranged) ELSE [v |-> 0, ok |-> FALSE]
  IN  With(FindStringSubmatch(re, s), found)

\* The powermetrics patterns on a line [star, label, ws, num, unit]:
\*   <label>\s+([\d.]+)\s+mW   matches when the label is there, followed by
\*   white space, a token of digits and dots only, white space and "mW";
\*   percent_charge:\s+(\d+)   captures the digits the token starts with.
\* <<>> stands for m == nil.
PowerSubmatch(label, text) ==
  IF /\ text.label = label
     /\ text.ws
     /\ text.num # <<>>
     /\ \A i \in 1..Len(text.num) : text.num[i] \in Digits \cup {"."}
     /\ text.unit = "mW"
  THEN text.num
  ELSE <<>>

PctSubmatch(text) ==
  IF text.label = "percent_charge:" /\ text.ws
  THEN DigitPrefix(text.num)
  ELSE <<>>

\* ------------------------------------------------------------------ inputs
Labels ==
  {"CPU Power:", "GPU Power:", "ANE Power:",
   "Combined Power (CPU + GPU + ANE):", "percent_charge:"}

t1500  == <<"1", "5", "0", "0", ".", "0">>
t250   == <<"2", "5", "0">>
t123   == <<"1", ".", "2", ".", "3">>
t87    == <<"8", "7">>
t150   == <<"1", "5", "0">>
tHuge  == <<"9", "9", "9", "9", "9", "9", "9", "9", "9", "9",
            "9", "9", "9", "9", "9", "9", "9", "9", "9", "9">>
t65    == <<"6", "5">>
t12500 == <<"1", "2", "5", "0", "0">>
t20000 == <<"2", "0", "0", "0", "0">>
t3250  == <<"3", "2", "5", "0">>
t3010  == <<"3", "0", "1", "0">>
t600k  == <<"6", "0", "0", "0", "0", "0">>
tm1200 == <<"-", "1", "2", "0", "0">>
tm999k == <<"-", "9", "9", "9", "9", "9", "9">>
t500   == <<"5", "0", "0">>
t501   == <<"5", "0", "1">>
t5000  == <<"5", "0", "0", "0">>
t4999  == <<"4", "9", "9", "9">>

Line(star, label, num, unit) ==
  [star |-> star, label |-> label, ws |-> TRUE, num |-> num, unit |-> unit]

\* no line: the value of text outside the loop body
NoLine == Line(FALSE, "none", <<>>, "")

\* "*** Sampled system activity ..." : the sample delimiter
StarLine == Line(TRUE, "none", <<>>, "")

\* the lines of the concurrency specification
Lines ==
  {StarLine,
   Line(FALSE, "CPU Power:", t1500, "mW")}

\* the number texts of the Fast Producer specification; the twenty digits
\* only follow percent_charge: (as a float, 1e20 is beyond the fixed point
\* kept here)
NumTexts == {t1500, t250, t123, t87, t150}

PowerLabels == Labels \ {"percent_charge:"}

\* the lines of the Fast Producer specification: every label with every
\* number text; lines without the white space, without the unit, with the
\* delimiter prefix before a label, and with nothing to extract
WideLines ==
  {Line(FALSE, lab, n, "mW") : lab \in PowerLabels, n \in NumTexts}
  \cup {Line(FALSE, "percent_charge:", n, "") : n \in NumTexts \cup {tHuge}}
  \cup {StarLine,
        Line(TRUE, "CPU Power:", t250, "mW"),
        Line(FALSE, "CPU Power:", t250, ""),
        [Line(FALSE, "GPU Power:", t250, "mW") EXCEPT !.ws = FALSE],
        [Line(FALSE, "percent_charge:", t87, "") EXCEPT !.ws = FALSE],
        NoLine}

Entry(key, sep, val) == [key |-> key, sep |-> sep, val |-> val]

\* a dump of a machine on AC power, charging
DumpAC ==
  <<Entry("\"Watts\"", "=", t65),
    Entry("\"AdapterVoltage\"", "=", t20000),
    Entry("\"Current\"", "=", t3250),
    Entry("\"AppleRawBatteryVoltage\"", " = ", t12500),
    Entry("\"Amperage\"", " = ", t250),
    Entry("\"Temperature\"", " = ", t3010),
    Entry("\"IsCharging\"", " = ", Yes),
    Entry("\"ExternalConnected\"", " = ", Yes)>>

\* a dump of a machine on battery
DumpBattery ==
  <<Entry("\"AppleRawBatteryVoltage\"", " = ", t12500),
    Entry("\"Amperage\"", " = ", tm1200),
    Entry("\"Temperature\"", " = ", t3010),
    Entry("\"IsCharging\"", " = ", No),
    Entry("\"ExternalConnected\"", " = ", No)>>

\* a garbled dump
DumpGarbled ==
  <<Entry("\"Watts\"", "=", t600k),
    Entry("\"Amperage\"", " = ", tm999k),
    Entry("\"Temperature\"", " = ", tm1200)>>

\* the dumps of the concurrency specification
Dumps == {DumpAC, DumpGarbled}

\* the value texts the Slow Producer specification tries after each
\* pattern's literal: inside the range, on and just past its ends, far
\* outside, too long for an int, and not matching the capture group
WideVals ==
  [watts    |-> {t65, t500, t501, t600k, tHuge, Yes},
   adapterV |-> {t65, t600k},
   adapterA |-> {t65, t600k},
   batteryV |-> {t4999, t5000, t12500, t600k},
   batteryA |-> {t65, tm1200, tm999k, tHuge},
   temp     |-> {t65, tm1200, t600k},
   charging |-> {Yes, No, t65},
   external |-> {Yes, No, t65}]

PEntry(k, v) == Entry(patterns[k].key, patterns[k].sep, v)

\* the dumps of the Slow Producer specification: one entry per dump; two
\* entries of the same key, the first one out of range or not matching;
\* the right key with the other separator; and the three dumps above
WideDumps ==
  {DumpAC, DumpBattery, DumpGarbled}
  \cup UNION {{<<PEntry(k, v)>> : v \in WideVals[k]} : k \in DOMAIN patterns}
  \cup {<<PEntry("watts", t600k), PEntry("watts", t65)>>,
        <<PEntry("watts", Yes), PEntry("watts", t65)>>,
        <<PEntry("batteryA", tm999k), PEntry("batteryA", tm1200)>>,
        <<PEntry("temp", tm1200), PEntry("temp", t65)>>,
        <<PEntry("external", t65), PEntry("external", Yes)>>}
  \cup {<<Entry(patterns.watts.key, " = ", t65)>>,
        <<Entry(patterns.batteryA.key, "=", t65)>>}

\* ----------------------------------------------------------------- drawing
\* A string is a sequence of runes.  The runes outside ASCII are written
\* with one ASCII character each, used for nothing else.
ESC    == "^"    \* \x1b
Full   == "#"    \* U+2588 full block
Light  == "."    \* U+2591 light shade
Border == "|"    \* U+2551 box drawings double vertical

Reset   == <<ESC, "[", "0", "m">>
Red     == <<ESC, "[", "3", "1", "m">>
Green   == <<ESC, "[", "3", "2", "m">>
Yellow  == <<ESC, "[", "3", "3", "m">>
Blue    == <<ESC, "[", "3", "4", "m">>
Magenta == <<ESC, "[", "3", "5", "m">>
Cyan    == <<ESC, "[", "3", "6", "m">>
Dim     == <<ESC, "[", "2", "m">>

\* a / b of Go on ints, b > 0: the quotient truncated toward zero
GoDiv(a, b) == IF a >= 0 THEN a \div b ELSE -((-a) \div b)

\* strings.Repeat(c, n) for n >= 0 (a negative count panics)
Repeat(c, n) == [i \in 1..n |-> c]

\* colorBar without the clamp at 100
colorBar_NoUpperClamp(pct, width, color) ==
  LET p      == IF pct < 0 THEN 0 ELSE pct
      filled == GoDiv(p * width, 100)
      empty  == IF width - filled < 0 THEN 0 ELSE width - filled
  IN  color \o Repeat(Full, filled) \o Reset \o Dim \o Repeat(Light, empty) \o Reset

colorBar(pct, width, color) ==
  LET p      == IF pct < 0 THEN 0 ELSE IF pct > 100 THEN 100 ELSE pct
      filled == GoDiv(p * width, 100)
      empty  == IF width - filled < 0 THEN 0 ELSE width - filled
  IN  color \o Repeat(Full, filled) \o Reset \o Dim \o Repeat(Light, empty) \o Reset

\* batPct is clamped and not used after that
splitBar(sysPct, batPct, width) ==
  LET sys     == IF sysPct < 0 THEN 0 ELSE sysPct
      bat     == IF batPct < 0 THEN 0 ELSE batPct
      sysBars == GoDiv(sys * width, 100)
      batBars == width - sysBars
  IN  Cyan \o Repeat(Full, IF sysBars < 0 THEN 0 ELSE sysBars) \o Reset
        \o Yellow \o Repeat(Full, IF batBars < 0 THEN 0 ELSE batBars) \o Reset

\* ansiRe = \x1b\[[0-9;]*m at the start of t: the index after the
\* parameters, from i on
RECURSIVE ParamEnd(_, _)
ParamEnd(t, i) ==
  IF i <= Len(t) /\ t[i] \in Digits \cup {";"} THEN ParamEnd(t, i + 1) ELSE i

\* the length of the match of ansiRe at the start of t, 0 when there is none
AnsiMatch(t) ==
  IF Len(t) >= 2 /\ t[1] = ESC /\ t[2] = "["
  THEN LET k == ParamEnd(t, 3)
       IN  IF k <= Len(t) /\ t[k] = "m" THEN k ELSE 0
  ELSE 0

\* ansiRe.ReplaceAllString(t, "")
RECURSIVE StripAnsi(_)
StripAnsi(t) ==
  IF t = <<>> THEN <<>>
  ELSE LET n == AnsiMatch(t)
       IN  IF n > 0 THEN StripAnsi(SubSeq(t, n + 1, Len(t)))
           ELSE <<Head(t)>> \o StripAnsi(Tail(t))

\* a visibleLen that counts the escape sequences too
visibleLen_Raw(t) == Len(t)

\* len([]rune(ansiRe.ReplaceAllString(s, "")))
visibleLen(t) == Len(StripAnsi(t))

\* const width = 52 in line
LineWidth == 52

line(content) ==
  LET visible == visibleLen(content)
      pad     == IF LineWidth - visible < 0 THEN 0 ELSE LineWidth - visible
  IN  <<Border, " ">> \o content \o Repeat(" ", pad) \o <<" ", Border>>

\* barWidth := 40 in render
BarWidth == 40

\* int(x) for the float64 x computed for num / den, den > 0: the quotient
\* truncated toward zero.  When the division is exact the rounding of the
\* float operations before it can leave x just inside the integer, and the
\* conversion then yields the integer one nearer to zero.
IntOfQuotient(num, den) ==
  LET q == GoDiv(num, den)
  IN  IF num % den = 0 /\ q # 0
      THEN {q, IF q > 0 THEN q - 1 ELSE q + 1}
      ELSE {q}

\* the values int((batteryW / float64(data.ChargerWatts)) * 100) can take
\* for the snapshot d; batteryW is kept in microwatts (mV times mA)
RawBatteryPct(d) ==
  IF d.OnAC /\ d.ChargerWatts > 0
  THEN IntOfQuotient(d.BatteryVoltage * d.BatteryAmps, 10000 * d.ChargerWatts)
  ELSE {0}

\* the power section without the clamp of batteryPct at 0
PowerSection_NoLowerClamp(d, raw) ==
  LET batteryW == d.BatteryVoltage * d.BatteryAmps
  IN  IF d.OnAC
      THEN LET systemW == d.ChargerWatts * 1000000 - batteryW
               rows    == <<"CHARGER", "charger", "rule", "POWER SPLIT",
                            "System", "Battery">>
           IN  IF d.ChargerWatts > 0
               THEN LET batteryPct == IF raw > 100 THEN 100 ELSE raw
                        systemPct  == 100 - batteryPct
                    IN  [rows |-> rows \o <<"bar", "legend">>,
                         systemW |-> systemW, batteryW |-> batteryW,
                         systemPct |-> systemPct, batteryPct |-> batteryPct,
                         bar |-> splitBar(systemPct, batteryPct, BarWidth)]
               ELSE [rows |-> rows, systemW |-> systemW, batteryW |-> batteryW]
      ELSE [rows |-> <<"ON BATTERY", "Drain">>, drainW |-> -batteryW]

\* if data.OnAC { CHARGER and POWER SPLIT, with the split bar and its legend
\* if data.ChargerWatts > 0 } else { ON BATTERY and the drain }: the rows
\* printed and the values in them, watts in microwatts; raw is what the
\* conversion to int gave
PowerSection(d, raw) ==
  LET batteryW == d.BatteryVoltage * d.BatteryAmps
  IN  IF d.OnAC
      THEN LET systemW == d.ChargerWatts * 1000000 - batteryW
               rows    == <<"CHARGER", "charger", "rule", "POWER SPLIT",
                            "System", "Battery">>
           IN  IF d.ChargerWatts > 0
               THEN LET batteryPct == IF raw < 0 THEN 0
                                      ELSE IF raw > 100 THEN 100 ELSE raw
                        systemPct  == 100 - batteryPct
                    IN  [rows |-> rows \o <<"bar", "legend">>,
                         systemW |-> systemW, batteryW |-> batteryW,
                         systemPct |-> systemPct, batteryPct |-> batteryPct,
                         bar |-> splitBar(systemPct, batteryPct, BarWidth)]
               ELSE [rows |-> rows, systemW |-> systemW, batteryW |-> batteryW]
      ELSE [rows |-> <<"ON BATTERY", "Drain">>, drainW |-> -batteryW]

\* ------------------------------------------------------------------- state
FastFields == {"CPUPower", "GPUPower", "ANEPower", "PackagePower", "BatteryPct"}
SlowInts   == {"ChargerWatts", "ChargerVoltage", "ChargerCurrent",
               "BatteryVoltage", "BatteryAmps", "Temperature"}
SlowBools  == {"IsCharging", "OnAC"}
SlowFields == SlowInts \cup SlowBools
Fields     == FastFields \cup SlowFields

VARIABLES
  data,        \* var data PowerData: field name -> value
  mu,          \* data.mu: [w: the goroutine that owns the writer side, r: readers]
  pcM,         \* where main is
  text,        \* main: the line scanner.Text() returned
  pcS,         \* where pollIoreg is
  s,           \* pollIoreg: string(out)
  slowErr,     \* pollIoreg: err of the last ioreg invocation (TRUE: err != nil)
  pcH,         \* where the signal goroutine is
  sig,         \* number of signals buffered in the channel sig (capacity 1)
  notify,      \* signal.Notify(sig, os.Interrupt) has been called
  cursor,      \* "visible" or "hidden"
  proc,        \* the powermetrics process: "none", "running", "exited", "killed"
  exitStatus,  \* "running", "exit0" or "sigint"
  exitCause,   \* what ended the program
  reported,    \* the error messages printed
  nLines,      \* lines delivered by scanner.Scan()
  nPolls,      \* ioreg invocations
  interrupted, \* an interrupt signal has been delivered
  nDelims,     \* lines found to start with "***"
  nRenders,    \* render() calls that have returned
  wid,         \* history: per producer, how many write sections it has entered
  wset,        \* history: per producer, the fields that section has assigned
  stamp,       \* history: per field, the write section (of its producer) that assigned it last
  committed,   \* history: the snapshot at the latest Unlock
  atRLock,     \* history: the snapshot when render acquired the read lock
  seen,        \* render: the value read of each field
  seenStamp,   \* history: the write section of each value render read
  readSet,     \* history: the fields the running render has read
  call         \* a function applied on its own: [fn, in, out]; NoCall inside the program

mainv  == <<pcM, text>>
pollv  == <<pcS, s, slowErr>>
envv   == <<sig, notify, cursor, proc, exitStatus, exitCause, reported>>
countv == <<nLines, nPolls, interrupted, nDelims, nRenders>>
snapv  == <<data, stamp, wset>>
lockv  == <<mu, wid, committed>>
viewv  == <<atRLock, seen, seenStamp, readSet>>
vars   == <<mainv, pollv, pcH, envv, countv, snapv, lockv, viewv, call>>

\* no function is applied on its own
NoCall == [fn |-> "none"]

Zero == [f \in Fields |-> IF f \in SlowBools THEN FALSE ELSE 0]

Init ==
  /\ data = Zero
  /\ mu = [w |-> "none", r |-> {}]
  /\ pcM = "hide"
  /\ text = NoLine
  /\ pcS = "idle"
  /\ s = <<>>
  /\ slowErr = FALSE
  /\ pcH = "idle"
  /\ sig = 0
  /\ notify = FALSE
  /\ cursor = "visible"
  /\ proc = "none"
  /\ exitStatus = "running"
  /\ exitCause = "none"
  /\ reported = <<>>
  /\ nLines = 0
  /\ nPolls = 0
  /\ interrupted = FALSE
  /\ nDelims = 0
  /\ nRenders = 0
  /\ wid = [p \in {"main", "poll"} |-> 0]
  /\ wset = [p \in {"main", "poll"} |-> {}]
  /\ stamp = [f \in Fields |-> 0]
  /\ committed = Zero
  /\ atRLock = Zero
  /\ seen = Zero
  /\ seenStamp = [f \in Fields |-> 0]
  /\ readSet = {}
  /\ call = NoCall

Running == exitStatus = "running"

\* --------------------------------------------------------- sync.RWMutex
\* a Lock that does not exclude the other writer
CanLock_NoExclusion(m) == TRUE

\* Lock first takes the writer mutex rw.w, which excludes the other writers
\* and makes new readers wait, then waits for the active readers to leave.
CanLock(m) == m.w = "none"

\* a Lock that does not wait for the readers
ReadersGone_NoWait(m) == TRUE

ReadersGone(m) == m.r = {}

\* an RLock that does not wait for the writer
CanRLock_NoWait(m) == TRUE

\* RLock waits while a writer holds the lock or is waiting for it
CanRLock(m) == m.w = "none"

LockBegin(p) ==
  /\ CanLock(mu)
  /\ mu' = [mu EXCEPT !.w = p]
  /\ UNCHANGED <<wid, committed, snapv>>

\* the write section of p starts: it gets the next number
LockEnd(p) ==
  /\ ReadersGone(mu)
  /\ wid' = [wid EXCEPT ![p] = @ + 1]
  /\ wset' = [wset EXCEPT ![p] = {}]
  /\ UNCHANGED <<mu, committed, data, stamp>>

Unlock(p) ==
  /\ mu' = [mu EXCEPT !.w = "none"]
  /\ committed' = data
  /\ UNCHANGED <<wid, snapv>>

\* data.<f> = v inside the write section of p
Assign(p, f, v) ==
  /\ data' = [data EXCEPT ![f] = v]
  /\ stamp' = [stamp EXCEPT ![f] = wid[p]]
  /\ wset' = [wset EXCEPT ![p] = @ \cup {f}]

\* if v, ok := extractInt(...); ok { data.<f> = v }
AssignIfOk(p, f, x) ==
  IF x.ok THEN Assign(p, f, x.v) ELSE UNCHANGED snapv

\* -------------------------------------------------------------------- main
\* fmt.Print("\033[?25l")
MainHideCursor ==
  /\ Running /\ pcM = "hide"
  /\ cursor' = "hidden"
  /\ pcM' = "clear"
  /\ UNCHANGED <<text, pollv, pcH, sig, notify, proc, exitStatus, exitCause,
                 reported, countv, snapv, lockv, viewv, call>>

\* fmt.Print("\033[H\033[2J")
MainClear ==
  /\ Running /\ pcM = "clear"
  /\ pcM' = "go"
  /\ UNCHANGED <<text, pollv, pcH, envv, countv, snapv, lockv, viewv, call>>

\* go pollIoreg()
MainGoPoll ==
  /\ Running /\ pcM = "go"
  /\ pcM' = "pipe"
  /\ pcS' = "exec"
  /\ UNCHANGED <<text, s, slowErr, pcH, envv, countv, snapv, lockv, viewv, call>>

\* the program ends: main returns, or os.Exit is called
Exit(cause) ==
  /\ exitStatus' = "exit0"
  /\ exitCause' = cause

\* stdout, err := cmd.StdoutPipe(); on error: report and return
MainStdoutPipe ==
  /\ Running /\ pcM = "pipe"
  /\ \E err \in BOOLEAN :
       IF err
       THEN /\ reported' = Append(reported, "Error:")
            /\ pcM' = "done"
            /\ Exit("launch")
       ELSE /\ pcM' = "start"
            /\ UNCHANGED <<reported, exitStatus, exitCause>>
  /\ UNCHANGED <<text, pollv, pcH, sig, notify, cursor, proc, countv, snapv,
                 lockv, viewv, call>>

\* cmd.Start() whose error is reported and then ignored
MainStart_IgnoreError ==
  /\ Running /\ pcM = "start"
  /\ \E err \in BOOLEAN :
       IF err
       THEN /\ reported' = Append(reported, "Error starting powermetrics (need sudo):")
            /\ pcM' = "notify"
            /\ UNCHANGED <<proc, exitStatus, exitCause>>
       ELSE /\ proc' = "running"
            /\ pcM' = "notify"
            /\ UNCHANGED <<reported, exitStatus, exitCause>>
  /\ UNCHANGED <<text, pollv, pcH, sig, notify, cursor, countv, snapv,
                 lockv, viewv, call>>

\* cmd.Start(); on error: report and return
MainStart ==
  /\ Running /\ pcM = "start"
  /\ \E err \in BOOLEAN :
       IF err
       THEN /\ reported' = Append(reported, "Error starting powermetrics (need sudo):")
            /\ pcM' = "done"
            /\ Exit("launch")
            /\ UNCHANGED proc
       ELSE /\ proc' = "running"
            /\ pcM' = "notify"
            /\ UNCHANGED <<reported, exitStatus, exitCause>>
  /\ UNCHANGED <<text, pollv, pcH, sig, notify, cursor, countv, snapv,
                 lockv, viewv, call>>

\* sig := make(chan os.Signal, 1); signal.Notify(sig, os.Interrupt);
\* go func() { <-sig ... }(); defer cmd.Process.Kill(); the scanner and
\* the patterns
MainNotify ==
  /\ Running /\ pcM = "notify"
  /\ notify' = TRUE
  /\ pcH' = "recv"
  /\ pcM' = "scan"
  /\ UNCHANGED <<text, pollv, sig, cursor, proc, exitStatus, exitCause,
                 reported, countv, snapv, lockv, viewv, call>>

\* a read loop that starts powermetrics again when its stream has closed
MainScan_Restart(L) ==
  /\ Running /\ pcM = "scan"
  /\ \/ /\ proc = "running"
        /\ nLines < MaxLines
        /\ \E t \in L : text' = t
        /\ nLines' = nLines + 1
        /\ pcM' = "lock"
        /\ UNCHANGED proc
     \/ /\ proc # "running"
        /\ proc' = "running"
        /\ pcM' = "scan"
        /\ UNCHANGED <<text, nLines>>
  /\ UNCHANGED <<pollv, pcH, sig, notify, cursor, exitStatus, exitCause,
                 reported, nPolls, interrupted, nDelims, nRenders,
                 snapv, lockv, viewv, call>>

\* for scanner.Scan() { text := scanner.Text(): the next line, or the end
\* of the stream once powermetrics is gone
MainScan(L) ==
  /\ Running /\ pcM = "scan"
  /\ \/ /\ proc = "running"
        /\ nLines < MaxLines
        /\ \E t \in L : text' = t
        /\ nLines' = nLines + 1
        /\ pcM' = "lock"
     \/ /\ proc # "running"
        /\ pcM' = "return"
        /\ UNCHANGED <<text, nLines>>
  /\ UNCHANGED <<pollv, pcH, envv, nPolls, interrupted, nDelims, nRenders,
                 snapv, lockv, viewv, call>>

\* data.mu.Lock(), first half: the writer mutex
MainLock ==
  /\ Running /\ pcM = "lock"
  /\ LockBegin("main")
  /\ pcM' = "lockwait"
  /\ UNCHANGED <<text, pollv, pcH, envv, countv, viewv, call>>

\* data.mu.Lock(), second half: the readers have left
MainLocked ==
  /\ Running /\ pcM = "lockwait"
  /\ LockEnd("main")
  /\ pcM' = "cpu"
  /\ UNCHANGED <<text, pollv, pcH, envv, countv, viewv, call>>

\* a loop body that adds the parsed value to the field
MainPower_Accumulate(at, label, f, next) ==
  /\ Running /\ pcM = at
  /\ LET m == PowerSubmatch(label, text)
     IN  IF m # <<>>
         THEN Assign("main", f, data[f] + ParseFloat(m).val)
         ELSE UNCHANGED snapv
  /\ pcM' = next
  /\ UNCHANGED <<text, pollv, pcH, envv, countv, lockv, viewv, call>>

\* if m := re.FindStringSubmatch(text); m != nil {
\*     data.<f>, _ = strconv.ParseFloat(m[1], 64) }
\* The error is dropped and the value ParseFloat returned is assigned.
MainPower(at, label, f, next) ==
  /\ Running /\ pcM = at
  /\ \E m \in {PowerSubmatch(label, text)} :
       IF m # <<>>
       THEN Assign("main", f, ParseFloat(m).val)
       ELSE UNCHANGED snapv
  /\ pcM' = next
  /\ UNCHANGED <<text, pollv, pcH, envv, countv, lockv, viewv, call>>

MainCPU == MainPower("cpu", "CPU Power:", "CPUPower", "gpu")

MainGPU == MainPower("gpu", "GPU Power:", "GPUPower", "ane")

MainANE == MainPower("ane", "ANE Power:", "ANEPower", "pkg")

MainPackage ==
  MainPower("pkg", "Combined Power (CPU + GPU + ANE):", "PackagePower", "pct")

\* if m := batteryPctRe.FindStringSubmatch(text); m != nil {
\*     data.BatteryPct, _ = strconv.Atoi(m[1]) }
MainBatteryPct ==
  /\ Running /\ pcM = "pct"
  /\ LET m == PctSubmatch(text)
     IN  IF m # <<>>
         THEN Assign("main", "BatteryPct", Atoi(m).val)
         ELSE UNCHANGED snapv
  /\ pcM' = "unlock"
  /\ UNCHANGED <<text, pollv, pcH, envv, countv, lockv, viewv, call>>

\* a loop body that goes on to the delimiter test with the lock still held
\* (the Unlock deferred)
MainUnlock_Deferred ==
  /\ Running /\ pcM = "unlock"
  /\ pcM' = "prefix"
  /\ UNCHANGED <<text, pollv, pcH, envv, countv, snapv, lockv, viewv, call>>

\* data.mu.Unlock()
MainUnlock ==
  /\ Running /\ pcM = "unlock"
  /\ Unlock("main")
  /\ pcM' = "prefix"
  /\ UNCHANGED <<text, pollv, pcH, envv, countv, viewv, call>>

\* a test that takes every line for a delimiter
IsDelimiter_Always(t) == TRUE

\* strings.HasPrefix(text, "***")
IsDelimiter(t) == t.star

\* if strings.HasPrefix(text, "***") { render() }
\* (nDelims counts the lines that do start with "***")
MainPrefix ==
  /\ Running /\ pcM = "prefix"
  /\ pcM' = IF IsDelimiter(text) THEN "rlock" ELSE "scan"
  /\ text' = IF IsDelimiter(text) THEN text ELSE NoLine
  /\ nDelims' = IF text.star THEN nDelims + 1 ELSE nDelims
  /\ UNCHANGED <<pollv, pcH, envv, nLines, nPolls, interrupted,
                 nRenders, snapv, lockv, viewv, call>>

\* the stream has ended: main returns and the deferred cmd.Process.Kill()
\* runs
MainDeferredKill ==
  /\ Running /\ pcM = "return"
  /\ proc' = IF proc = "running" THEN "killed" ELSE proc
  /\ pcM' = "exit"
  /\ UNCHANGED <<text, pollv, pcH, sig, notify, cursor, exitStatus, exitCause,
                 reported, countv, snapv, lockv, viewv, call>>

\* main has returned: the program exits with status 0
MainReturn ==
  /\ Running /\ pcM = "exit"
  /\ pcM' = "done"
  /\ Exit("stream")
  /\ UNCHANGED <<text, pollv, pcH, sig, notify, cursor, proc, reported,
                 countv, snapv, lockv, viewv, call>>

\* ------------------------------------------------------------------ render
\* the fields a step of render reads
Read(F) ==
  /\ seen' = [f \in Fields |-> IF f \in F THEN data[f] ELSE seen[f]]
  /\ seenStamp' = [f \in Fields |-> IF f \in F THEN stamp[f] ELSE seenStamp[f]]
  /\ readSet' = readSet \cup F
  /\ UNCHANGED <<atRLock, call>>

\* data.mu.RLock()
RenderRLock ==
  /\ Running /\ pcM = "rlock"
  /\ CanRLock(mu)
  /\ mu' = [mu EXCEPT !.r = @ \cup {"main"}]
  /\ atRLock' = data
  /\ readSet' = {}
  /\ pcM' = "silicon"
  /\ UNCHANGED <<text, pollv, pcH, envv, countv, snapv, wid,
                 committed, seen, seenStamp, call>>

\* the watts, volts and amperes computed first
RenderSilicon ==
  /\ Running /\ pcM = "silicon"
  /\ Read({"CPUPower", "GPUPower", "ANEPower", "PackagePower",
           "ChargerVoltage", "ChargerCurrent", "BatteryVoltage",
           "BatteryAmps", "Temperature"})
  /\ pcM' = "power"
  /\ UNCHANGED <<text, pollv, pcH, envv, countv, snapv, lockv>>

\* if data.OnAC { charger and power split } else { drain }
RenderPower ==
  /\ Running /\ pcM = "power"
  /\ Read({"OnAC", "ChargerWatts"})
  /\ pcM' = "battery"
  /\ UNCHANGED <<text, pollv, pcH, envv, countv, snapv, lockv>>

\* the battery section
RenderBattery ==
  /\ Running /\ pcM = "battery"
  /\ Read({"IsCharging", "OnAC", "BatteryPct", "BatteryAmps"})
  /\ pcM' = "runlock"
  /\ UNCHANGED <<text, pollv, pcH, envv, countv, snapv, lockv>>

\* defer data.mu.RUnlock(): render returns to the read loop, and the locals
\* of render and of the loop body are gone
RenderRUnlock ==
  /\ Running /\ pcM = "runlock"
  /\ mu' = [mu EXCEPT !.r = @ \ {"main"}]
  /\ nRenders' = nRenders + 1
  /\ pcM' = "scan"
  /\ text' = NoLine
  /\ atRLock' = Zero
  /\ seen' = Zero
  /\ seenStamp' = [f \in Fields |-> 0]
  /\ readSet' = {}
  /\ UNCHANGED <<pollv, pcH, envv, nLines, nPolls, interrupted, nDelims,
                 snapv, wid, committed, call>>

\* --------------------------------------------------------------- pollIoreg
\* exec.Command("ioreg", "-rn", "AppleSmartBattery").Output() is started
PollExec ==
  /\ Running /\ pcS = "exec"
  /\ nPolls < MaxPolls
  /\ nPolls' = nPolls + 1
  /\ pcS' = "output"
  /\ UNCHANGED <<mainv, s, slowErr, pcH, envv, nLines, interrupted, nDelims,
                 nRenders, snapv, lockv, viewv, call>>

\* a pollIoreg that goes on to the write section when the command failed
PollOutput_LockOnError(D) ==
  /\ Running /\ pcS = "output"
  /\ \E err \in BOOLEAN :
       /\ slowErr' = err
       /\ pcS' = "lock"
       /\ IF err THEN UNCHANGED s ELSE \E out \in D : s' = out
  /\ UNCHANGED <<mainv, pcH, envv, countv, snapv, lockv, viewv, call>>

\* a pollIoreg that clears the snapshot when the command failed
PollOutput_ResetOnError(D) ==
  /\ Running /\ pcS = "output"
  /\ \E err \in BOOLEAN :
       /\ slowErr' = err
       /\ IF err
          THEN /\ pcS' = "sleep"
               /\ data' = Zero
               /\ UNCHANGED s
          ELSE /\ pcS' = "lock"
               /\ \E out \in D : s' = out
               /\ UNCHANGED data
  /\ UNCHANGED <<mainv, pcH, envv, countv, stamp, wset, lockv, viewv, call>>

\* out, err := ....Output() returns; if err == nil { s := string(out) ...
\* otherwise straight to the sleep
PollOutput(D) ==
  /\ Running /\ pcS = "output"
  /\ \E err \in BOOLEAN :
       /\ slowErr' = err
       /\ IF err
          THEN /\ pcS' = "sleep"
               /\ UNCHANGED s
          ELSE /\ pcS' = "lock"
               /\ \E out \in D : s' = out
  /\ UNCHANGED <<mainv, pcH, envv, countv, snapv, lockv, viewv, call>>

\* data.mu.Lock(), first half
PollLock ==
  /\ Running /\ pcS = "lock"
  /\ LockBegin("poll")
  /\ pcS' = "lockwait"
  /\ UNCHANGED <<mainv, s, slowErr, pcH, envv, countv, viewv, call>>

\* data.mu.Lock(), second half
PollLocked ==
  /\ Running /\ pcS = "lockwait"
  /\ LockEnd("poll")
  /\ pcS' = "watts"
  /\ UNCHANGED <<mainv, s, slowErr, pcH, envv, countv, viewv, call>>

\* if v, ok := extractInt(s, patterns[k], min, max); ok { data.<f> = v }
PollInt(at, k, min, max, f, next) ==
  /\ Running /\ pcS = at
  /\ \E x \in {extractInt(s, patterns[k], min, max)} : AssignIfOk("poll", f, x)
  /\ pcS' = next
  /\ UNCHANGED <<mainv, s, slowErr, pcH, envv, countv, lockv, viewv, call>>

PollWatts == PollInt("watts", "watts", 0, 500, "ChargerWatts", "adapterV")

PollAdapterV ==
  PollInt("adapterV", "adapterV", 0, 50000, "ChargerVoltage", "adapterA")

PollAdapterA ==
  PollInt("adapterA", "adapterA", 0, 10000, "ChargerCurrent", "batteryV")

PollBatteryV ==
  PollInt("batteryV", "batteryV", 5000, 25000, "BatteryVoltage", "batteryA")

PollBatteryA ==
  PollInt("batteryA", "batteryA", -15000, 15000, "BatteryAmps", "temp")

PollTemp == PollInt("temp", "temp", 0, 10000, "Temperature", "charging")

\* if m := patterns[k].FindStringSubmatch(s); len(m) > 1 {
\*     data.<f> = m[1] == "Yes" }
PollBool(at, k, f, next) ==
  /\ Running /\ pcS = at
  /\ \E m \in {FindStringSubmatch(patterns[k], s)} :
       IF m # <<>>
       THEN Assign("poll", f, m = Yes)
       ELSE UNCHANGED snapv
  /\ pcS' = next
  /\ UNCHANGED <<mainv, s, slowErr, pcH, envv, countv, lockv, viewv, call>>

PollCharging == PollBool("charging", "charging", "IsCharging", "external")

PollExternal == PollBool("external", "external", "OnAC", "unlock")

\* a cycle that goes to sleep with the lock still held
PollUnlock_KeepLock ==
  /\ Running /\ pcS = "unlock"
  /\ pcS' = "sleep"
  /\ s' = <<>>
  /\ UNCHANGED <<mainv, slowErr, pcH, envv, countv, snapv, lockv, viewv, call>>

\* data.mu.Unlock(), and the end of the block that declared s
PollUnlock ==
  /\ Running /\ pcS = "unlock"
  /\ Unlock("poll")
  /\ pcS' = "sleep"
  /\ s' = <<>>
  /\ UNCHANGED <<mainv, slowErr, pcH, envv, countv, viewv, call>>

\* time.Sleep(5 * time.Second), then the next cycle
PollSleep ==
  /\ Running /\ pcS = "sleep"
  /\ pcS' = "exec"
  /\ UNCHANGED <<mainv, s, slowErr, pcH, envv, countv, snapv, lockv, viewv, call>>

\* ------------------------------------------------------ the signal goroutine
\* <-sig
HandlerRecv ==
  /\ Running /\ pcH = "recv"
  /\ sig > 0
  /\ sig' = sig - 1
  /\ pcH' = "kill"
  /\ UNCHANGED <<mainv, pollv, notify, cursor, proc, exitStatus, exitCause,
                 reported, countv, snapv, lockv, viewv, call>>

\* cmd.Process.Kill()
HandlerKill ==
  /\ Running /\ pcH = "kill"
  /\ proc' = IF proc = "running" THEN "killed" ELSE proc
  /\ pcH' = "show"
  /\ UNCHANGED <<mainv, pollv, sig, notify, cursor, exitStatus, exitCause,
                 reported, countv, snapv, lockv, viewv, call>>

\* fmt.Print("\033[?25h\n")
HandlerShowCursor ==
  /\ Running /\ pcH = "show"
  /\ cursor' = "visible"
  /\ pcH' = "exit"
  /\ UNCHANGED <<mainv, pollv, sig, notify, proc, exitStatus, exitCause,
                 reported, countv, snapv, lockv, viewv, call>>

\* os.Exit(0)
HandlerExit ==
  /\ Running /\ pcH = "exit"
  /\ pcH' = "done"
  /\ Exit("handler")
  /\ UNCHANGED <<mainv, pollv, sig, notify, cursor, proc, reported, countv,
                 snapv, lockv, viewv, call>>

\* ------------------------------------------------------------- environment
\* An interrupt signal reaches the program once the cursor is hidden.  After
\* signal.Notify it is sent to the channel, without blocking (dropped when
\* the buffer is full); before, the runtime's default ends the program.
Interrupt ==
  /\ Running /\ pcM # "hide"
  /\ interrupted' = TRUE
  /\ IF notify
     THEN /\ sig' = 1
          /\ UNCHANGED <<exitStatus, exitCause>>
     ELSE /\ exitStatus' = "sigint"
          /\ exitCause' = "signal"
          /\ UNCHANGED sig
  /\ UNCHANGED <<mainv, pollv, pcH, notify, cursor, proc, reported, nLines,
                 nPolls, nDelims, nRenders, snapv, lockv, viewv, call>>

\* powermetrics ends by itself and its output stream closes
ProcExit ==
  /\ Running /\ proc = "running"
  /\ proc' = "exited"
  /\ UNCHANGED <<mainv, pollv, pcH, sig, notify, cursor, exitStatus,
                 exitCause, reported, countv, snapv, lockv, viewv, call>>

\* ---------------------------------------------------------- specifications
Next ==
  \/ MainHideCursor \/ MainClear \/ MainGoPoll \/ MainStdoutPipe \/ MainStart
  \/ MainNotify \/ MainScan(Lines) \/ MainLock \/ MainLocked
  \/ MainCPU \/ MainGPU \/ MainANE \/ MainPackage \/ MainBatteryPct
  \/ MainUnlock \/ MainPrefix \/ MainDeferredKill \/ MainReturn
  \/ RenderRLock \/ RenderSilicon \/ RenderPower \/ RenderBattery
  \/ RenderRUnlock
  \/ PollExec \/ PollOutput(Dumps) \/ PollLock \/ PollLocked
  \/ PollWatts \/ PollAdapterV \/ PollAdapterA \/ PollBatteryV
  \/ PollBatteryA \/ PollTemp \/ PollCharging \/ PollExternal
  \/ PollUnlock \/ PollSleep
  \/ HandlerRecv \/ HandlerKill \/ HandlerShowCursor \/ HandlerExit
  \/ Interrupt \/ ProcExit

Spec == Init /\ [][Next]_vars

\* The Fast Producer on its own, over the wide set of lines: pollIoreg and
\* the signal goroutine are never scheduled and no signal arrives.
NextFast ==
  \/ MainHideCursor \/ MainClear \/ MainGoPoll \/ MainStdoutPipe \/ MainStart
  \/ MainNotify \/ MainScan(WideLines) \/ MainLock \/ MainLocked
  \/ MainCPU \/ MainGPU \/ MainANE \/ MainPackage \/ MainBatteryPct
  \/ MainUnlock \/ MainPrefix \/ MainDeferredKill \/ MainReturn
  \/ RenderRLock \/ RenderSilicon \/ RenderPower \/ RenderBattery
  \/ RenderRUnlock
  \/ ProcExit

SpecFast == Init /\ [][NextFast]_vars

\* The Slow Producer on its own, over the wide set of dumps: powermetrics
\* prints nothing, so that main stays in scanner.Scan(), and no signal
\* arrives.
NextSlow ==
  \/ MainHideCursor \/ MainClear \/ MainGoPoll \/ MainStdoutPipe \/ MainStart
  \/ MainNotify
  \/ PollExec \/ PollOutput(WideDumps) \/ PollLock \/ PollLocked
  \/ PollWatts \/ PollAdapterV \/ PollAdapterA \/ PollBatteryV
  \/ PollBatteryA \/ PollTemp \/ PollCharging \/ PollExternal
  \/ PollUnlock \/ PollSleep

SpecSlow == Init /\ [][NextSlow]_vars

\* The steps main takes by itself, render included: everything but the
\* arrival of a further line.
MainRun ==
  \/ MainHideCursor \/ MainClear \/ MainGoPoll \/ MainStdoutPipe \/ MainStart
  \/ MainNotify \/ (MainScan(Lines) /\ proc # "running")
  \/ MainLock \/ MainLocked
  \/ MainCPU \/ MainGPU \/ MainANE \/ MainPackage \/ MainBatteryPct
  \/ MainUnlock \/ MainPrefix \/ MainDeferredKill \/ MainReturn
  \/ RenderRLock \/ RenderSilicon \/ RenderPower \/ RenderBattery
  \/ RenderRUnlock

\* The steps pollIoreg takes by itself: everything but the return of the
\* ioreg command, which may take for ever.
PollRun ==
  \/ PollExec \/ PollLock \/ PollLocked
  \/ PollWatts \/ PollAdapterV \/ PollAdapterA \/ PollBatteryV
  \/ PollBatteryA \/ PollTemp \/ PollCharging \/ PollExternal
  \/ PollUnlock \/ PollSleep

\* main, render and pollIoreg while no signal arrives
NextLive ==
  \/ MainHideCursor \/ MainClear \/ MainGoPoll \/ MainStdoutPipe \/ MainStart
  \/ MainNotify \/ MainScan(Lines) \/ MainLock \/ MainLocked
  \/ MainCPU \/ MainGPU \/ MainANE \/ MainPackage \/ MainBatteryPct
  \/ MainUnlock \/ MainPrefix \/ MainDeferredKill \/ MainReturn
  \/ RenderRLock \/ RenderSilicon \/ RenderPower \/ RenderBattery
  \/ RenderRUnlock
  \/ PollExec \/ PollOutput(Dumps) \/ PollLock \/ PollLocked
  \/ PollWatts \/ PollAdapterV \/ PollAdapterA \/ PollBatteryV
  \/ PollBatteryA \/ PollTemp \/ PollCharging \/ PollExternal
  \/ PollUnlock \/ PollSleep
  \/ ProcExit

\* The program under the Go scheduler: a goroutine that can run does run,
\* and a goroutine waiting in Lock or RLock gets the lock when it is free
\* again and again (a sync.Mutex hands the lock to a waiter that has been
\* starved, an RWMutex keeps new readers out while a writer waits).  Nothing
\* is assumed of the environment: neither that powermetrics prints a further
\* line or ends, nor that the ioreg command returns.
SpecLive ==
  /\ Init /\ [][NextLive]_vars
  /\ SF_vars(MainRun)
  /\ SF_vars(PollRun)

\* Snapshots the program can hold after some lines and dumps: of a machine
\* on AC power, charging, and of a machine on battery.
SnapAC ==
  [CPUPower |-> 15000, GPUPower |-> 2500, ANEPower |-> 870,
   PackagePower |-> 1500, BatteryPct |-> 87,
   ChargerWatts |-> 65, ChargerVoltage |-> 20000, ChargerCurrent |-> 3250,
   BatteryVoltage |-> 12500, BatteryAmps |-> 250, Temperature |-> 3010,
   IsCharging |-> TRUE, OnAC |-> TRUE]

SnapBattery ==
  [CPUPower |-> 2500, GPUPower |-> 0, ANEPower |-> 0,
   PackagePower |-> 2500, BatteryPct |-> 150,
   ChargerWatts |-> 0, ChargerVoltage |-> 0, ChargerCurrent |-> 0,
   BatteryVoltage |-> 12500, BatteryAmps |-> -1200, Temperature |-> 3010,
   IsCharging |-> FALSE, OnAC |-> FALSE]

StartSnapshots == {Zero, SnapAC, SnapBattery}

\* The same input again and again.  The program is past its start, main in
\* scanner.Scan() and pollIoreg about to run ioreg, with some snapshot;
\* then either powermetrics prints one and the same line each time while
\* pollIoreg is not scheduled, or ioreg prints one and the same dump each
\* time while powermetrics prints nothing.
InitTwice ==
  /\ \E d \in StartSnapshots :
       /\ data = d
       /\ committed = d
       /\ \/ \E t \in WideLines : call = [fn |-> "line", in |-> t, start |-> d]
          \/ \E o \in WideDumps : call = [fn |-> "dump", in |-> o, start |-> d]
  /\ mu = [w |-> "none", r |-> {}]
  /\ pcM = "scan"
  /\ text = NoLine
  /\ pcS = "exec"
  /\ s = <<>>
  /\ slowErr = FALSE
  /\ pcH = "recv"
  /\ sig = 0
  /\ notify = TRUE
  /\ cursor = "hidden"
  /\ proc = "running"
  /\ exitStatus = "running"
  /\ exitCause = "none"
  /\ reported = <<>>
  /\ nLines = 0
  /\ nPolls = 0
  /\ interrupted = FALSE
  /\ nDelims = 0
  /\ nRenders = 0
  /\ wid = [p \in {"main", "poll"} |-> 0]
  /\ wset = [p \in {"main", "poll"} |-> {}]
  /\ stamp = [f \in Fields |-> 0]
  /\ atRLock = Zero
  /\ seen = Zero
  /\ seenStamp = [f \in Fields |-> 0]
  /\ readSet = {}

TwiceScan == call.fn = "line" /\ MainScan({call.in})

TwiceExec == call.fn = "dump" /\ PollExec

TwiceOutput == call.fn = "dump" /\ PollOutput({call.in})

NextTwice ==
  \/ TwiceScan \/ MainLock \/ MainLocked
  \/ MainCPU \/ MainGPU \/ MainANE \/ MainPackage \/ MainBatteryPct
  \/ MainUnlock \/ MainPrefix
  \/ RenderRLock \/ RenderSilicon \/ RenderPower \/ RenderBattery
  \/ RenderRUnlock
  \/ TwiceExec \/ TwiceOutput \/ PollLock \/ PollLocked
  \/ PollWatts \/ PollAdapterV \/ PollAdapterA \/ PollBatteryV
  \/ PollBatteryA \/ PollTemp \/ PollCharging \/ PollExternal
  \/ PollUnlock \/ PollSleep

SpecTwice == InitTwice /\ [][NextTwice]_vars

\* The drawing functions applied on their own, outside a run of the
\* program: all of the program's state stays as it is at the start.
progv == <<mainv, pollv, pcH, envv, countv, snapv, lockv, viewv>>

Pcts == (-PctOver)..(100 + PctOver)

CallColorBar ==
  /\ call = NoCall
  /\ \E pct \in Pcts, width \in 0..MaxWidth, color \in {Magenta, Yellow} :
       call' = [fn  |-> "colorBar",
                in  |-> [pct |-> pct, width |-> width, color |-> color],
                out |-> colorBar(pct, width, color)]
  /\ UNCHANGED progv

CallSplitBar ==
  /\ call = NoCall
  /\ \E sysPct \in Pcts, width \in 0..MaxWidth :
       \E batPct \in {-PctOver, 100 - sysPct, 100 + PctOver} :
         call' = [fn  |-> "splitBar",
                  in  |-> [sysPct |-> sysPct, batPct |-> batPct, width |-> width],
                  out |-> splitBar(sysPct, batPct, width)]
  /\ UNCHANGED progv

\* contents of n visible runes: bare, inside one colour, and with a colour
\* of two parameters in the middle
Styles == {"plain", "colored", "mixed"}

Content(n, style) ==
  CASE style = "plain"   -> Repeat("x", n)
    [] style = "colored" -> Magenta \o Repeat("x", n) \o Reset
    [] style = "mixed"   ->
         Repeat("x", n \div 2) \o <<ESC, "[", "1", ";", "3", "2", "m">>
           \o Repeat("x", n - n \div 2) \o Reset

CallLine ==
  /\ call = NoCall
  /\ \E n \in 0..MaxContent, style \in Styles :
       call' = [fn  |-> "line",
                in  |-> [n |-> n, style |-> style],
                out |-> line(Content(n, style))]
  /\ UNCHANGED progv

\* the snapshots render is tried on: on and off AC, no charger watts, few
\* and the most, battery voltage never set and across its range, battery
\* current from full discharge to full charge
RenderSnapshots ==
  {[Zero EXCEPT !["OnAC"] = a, !["ChargerWatts"] = w,
                !["BatteryVoltage"] = v, !["BatteryAmps"] = i] :
     a \in BOOLEAN, w \in {0, 1, 65, 500}, v \in {0, 5000, 12500, 25000},
     i \in {-15000, -1200, 0, 250, 5200, 15000}}

CallPowerSection ==
  /\ call = NoCall
  /\ \E d \in RenderSnapshots :
       \E raw \in RawBatteryPct(d) :
         call' = [fn  |-> "power",
                  in  |-> d,
                  out |-> PowerSection(d, raw)]
  /\ UNCHANGED progv

NextDraw == CallColorBar \/ CallSplitBar \/ CallLine \/ CallPowerSection

SpecDraw == Init /\ [][NextDraw]_vars

\* ------------------------------------------------------------------ claims
Producers == {"main", "poll"}

\* where main is inside its write section (after Lock, up to Unlock)
MainWritePcs == {"cpu", "gpu", "ane", "pkg", "pct", "unlock"}

\* where pollIoreg is inside its write section
PollWritePcs == {"watts", "adapterV", "adapterA", "batteryV", "batteryA",
                 "temp", "charging", "external", "unlock"}

\* where render is inside its read section (after RLock, up to RUnlock)
ReadPcs == {"silicon", "power", "battery", "runlock"}

\* where main is inside render()
RenderPcs == {"rlock"} \cup ReadPcs

\* C1: a render never sees some but not all of the fields one write section
\* assigned: of the fields a producer's latest write section has assigned and
\* the render has read, either every value read is the one that section
\* wrote, or none is.
C1_AtomicVisibility ==
  \A p \in Producers : \A f, g \in wset[p] \cap readSet :
    (seenStamp[f] = wid[p]) <=> (seenStamp[g] = wid[p])

\* a render has read, entirely, a write section of pollIoreg that assigned
\* several fields, while pollIoreg is waiting for the lock again
C1_Witness ==
  /\ pcM = "runlock"
  /\ pcS = "lockwait"
  /\ Cardinality(wset["poll"]) >= 2
  /\ \A f \in wset["poll"] : f \in readSet /\ seenStamp[f] = wid["poll"]

\* C2: at most one producer is inside its write section, render is not
\* inside its read section while a producer is inside its write section,
\* and whoever is inside a section holds the lock in the matching mode.
C2_MutualExclusion ==
  /\ ~(pcM \in MainWritePcs /\ pcS \in PollWritePcs)
  /\ (pcM \in MainWritePcs \/ pcS \in PollWritePcs) => pcM \notin ReadPcs
  /\ pcM \in MainWritePcs => mu.w = "main" /\ mu.r = {}
  /\ pcS \in PollWritePcs => mu.w = "poll" /\ mu.r = {}
  /\ pcM \in ReadPcs => "main" \in mu.r

\* pollIoreg is inside its write section and render is waiting in RLock
C2_Witness ==
  /\ pcS \in PollWritePcs
  /\ wset["poll"] # {}
  /\ pcM = "rlock"

\* C3: once an interrupt has arrived after the cursor was hidden, the
\* program ends with powermetrics killed, the cursor visible and status 0.
C3_InterruptShutsDownCleanly ==
  (exitStatus # "running" /\ interrupted) =>
    /\ proc # "running"
    /\ cursor = "visible"
    /\ exitStatus = "exit0"

\* C4: when the program has ended because the stream closed and main
\* returned, or through the signal goroutine, the cursor is visible.
C4_CursorVisibleAtExit ==
  exitCause \in {"stream", "handler"} => cursor = "visible"

\* the ranges of the plausibility filter, per field
PlausibleRange ==
  [ChargerWatts   |-> [min |-> 0,      max |-> 500],
   ChargerVoltage |-> [min |-> 0,      max |-> 50000],
   ChargerCurrent |-> [min |-> 0,      max |-> 10000],
   BatteryVoltage |-> [min |-> 5000,   max |-> 25000],
   BatteryAmps    |-> [min |-> -15000, max |-> 15000],
   Temperature    |-> [min |-> 0,      max |-> 10000]]

\* the pattern of each field, which is also the name of the step of
\* pollIoreg that extracts it
PatternOf ==
  [ChargerWatts   |-> "watts",    ChargerVoltage |-> "adapterV",
   ChargerCurrent |-> "adapterA", BatteryVoltage |-> "batteryV",
   BatteryAmps    |-> "batteryA", Temperature    |-> "temp"]

\* the pattern of f matches in the dump d and the number it captures parses
\* and lies inside the range of f
Plausible(f, d) ==
  LET m == FindStringSubmatch(patterns[PatternOf[f]], d)
  IN  /\ m # <<>>
      /\ ~Atoi(m).err
      /\ Atoi(m).val >= PlausibleRange[f].min
      /\ Atoi(m).val <= PlausibleRange[f].max

\* C5: the step of pollIoreg for a field assigns the captured value if and
\* only if the pattern matches and the value parses and lies inside the
\* field's inclusive range, and leaves the field as it was otherwise; every
\* such field is always 0 or inside its range.
C5_PlausibilityFilter ==
  /\ [](\A f \in SlowInts :
          \/ data[f] = 0
          \/ data[f] >= PlausibleRange[f].min /\ data[f] <= PlausibleRange[f].max)
  /\ [][\A f \in SlowInts :
          (pcS = PatternOf[f] /\ pcS' # pcS) =>
            /\ (f \in wset'["poll"]) <=> Plausible(f, s)
            /\ data'[f] = IF Plausible(f, s)
                          THEN Atoi(FindStringSubmatch(patterns[PatternOf[f]], s)).val
                          ELSE data[f]]_vars

\* "Amperage" = -999999 has just been discarded and BatteryAmps keeps the
\* value of an earlier dump
C5_Witness ==
  /\ pcS = "temp"
  /\ FindStringSubmatch(patterns.batteryA, s) = tm999k
  /\ data["BatteryAmps"] # 0
  /\ "BatteryAmps" \notin wset["poll"]

\* C6: BatteryPct is always an integer from 0 to 100.
C6_BatteryPctInRange ==
  data["BatteryPct"] \in 0..100

\* the step of main that extracts each power field, and its label
PowerStep ==
  [CPUPower     |-> [at |-> "cpu", label |-> "CPU Power:"],
   GPUPower     |-> [at |-> "gpu", label |-> "GPU Power:"],
   ANEPower     |-> [at |-> "ane", label |-> "ANE Power:"],
   PackagePower |-> [at |-> "pkg", label |-> "Combined Power (CPU + GPU + ANE):"]]

\* C7: when a line matches a power pattern or the percent_charge pattern
\* and the captured text does not parse, the field is after the line what it
\* was before.
C7_FailedExtractionKeepsValue ==
  [][/\ \A f \in DOMAIN PowerStep :
          LET m == PowerSubmatch(PowerStep[f].label, text)
          IN  (pcM = PowerStep[f].at /\ pcM' # pcM /\ m # <<>> /\ ParseFloat(m).err)
                => data'[f] = data[f]
     /\ LET m == PctSubmatch(text)
        IN  (pcM = "pct" /\ pcM' # pcM /\ m # <<>> /\ Atoi(m).err)
              => data'["BatteryPct"] = data["BatteryPct"]]_vars

\* C8: when the ioreg command returns an error, that step changes no field,
\* does not touch the lock, reports nothing and leads to the sleep; pollIoreg
\* does not hold the lock around the command or the sleep, and after the
\* sleep the next cycle can start.
C8_FailedCycleSkipped ==
  /\ [][(pcS = "output" /\ pcS' # pcS /\ slowErr') =>
          /\ pcS' = "sleep"
          /\ data' = data
          /\ mu' = mu
          /\ reported' = reported
          /\ s' = s]_vars
  /\ [](pcS \in {"exec", "output", "sleep"} => mu.w # "poll")
  /\ [](Running /\ pcS = "sleep" => ENABLED PollSleep)

\* the first cycle failed after nothing was written, and the second cycle
\* has started its command
C8_Witness ==
  /\ pcS = "output"
  /\ slowErr
  /\ nPolls = 2
  /\ wid["poll"] = 0

\* C9: inside its read section render works on the snapshot as it was when
\* the read lock was acquired, which is the snapshot the latest Unlock left:
\* every value read equals it and no field changes before RUnlock.
C9_RenderFreshness ==
  pcM \in ReadPcs =>
    /\ atRLock = committed
    /\ data = atRLock
    /\ \A f \in readSet : seen[f] = atRLock[f]

\* a render has read the whole snapshot, with values committed by both
\* producers
C9_Witness ==
  /\ pcM = "runlock"
  /\ readSet = Fields
  /\ seen["CPUPower"] # 0
  /\ seen["ChargerWatts"] # 0

\* C10: render is entered exactly when the loop finds that the line starts
\* with "***", after the line's write section was released; no line is read
\* while render runs; the renders that have returned are as many as the
\* lines found to start with "***", one less while render is running.
C10_RenderOnDelimiterOnly ==
  /\ [](nRenders = nDelims - (IF pcM \in RenderPcs THEN 1 ELSE 0))
  /\ [](pcM \in RenderPcs => text.star /\ mu.w # "main")
  /\ [][(pcM \notin RenderPcs /\ pcM' \in RenderPcs)
          <=> (pcM = "prefix" /\ pcM' # pcM /\ text.star)]_vars
  /\ [][nLines' # nLines => pcM \notin RenderPcs /\ nRenders = nDelims]_vars

\* two lines have been processed, one of them a delimiter, and one render
\* has returned
C10_Witness ==
  /\ pcM = "scan"
  /\ nLines = 2
  /\ nDelims = 1
  /\ nRenders = 1

\* C11: when StdoutPipe or Start fails, the step reports the error and ends
\* the program at once with no line read and render never run, although
\* pollIoreg has already been started; an error is reported only that way,
\* and nothing is read or rendered before powermetrics has been started.
C11_LaunchFailureIsFatal ==
  /\ [][(pcM \in {"pipe", "start"} /\ pcM' = "done") =>
          /\ Len(reported') = Len(reported) + 1
          /\ exitStatus' = "exit0"
          /\ exitCause' = "launch"
          /\ proc' = "none"]_vars
  /\ [](exitCause = "launch" =>
          /\ reported # <<>>
          /\ nLines = 0 /\ nDelims = 0 /\ nRenders = 0
          /\ wid["main"] = 0
          /\ pcS # "idle")
  /\ [](reported # <<>> => exitCause = "launch" /\ exitStatus = "exit0")
  /\ [](proc = "none" => nLines = 0 /\ pcM \notin RenderPcs)

\* Start has failed and the program has ended while pollIoreg, started
\* before, was inside its write section
C11_Witness ==
  /\ exitCause = "launch"
  /\ reported = <<"Error starting powermetrics (need sudo):">>
  /\ pcS \in PollWritePcs
  /\ wset["poll"] # {}

\* the stream of powermetrics has closed
StreamClosed == proc \in {"exited", "killed"}

\* C12: once the stream has closed the program ends, whatever pollIoreg is
\* doing; powermetrics is never started again; a Scan that finds the stream
\* closed leaves the loop without reading a line; main's return kills the
\* process if it still runs, depends on no step of pollIoreg, and leaves
\* the program ended with powermetrics gone.
C12_StreamEndTerminates ==
  /\ StreamClosed ~> ~Running
  /\ [][StreamClosed => proc' = proc]_vars
  /\ [][(pcM = "scan" /\ pcM' # pcM /\ StreamClosed) =>
          pcM' = "return" /\ nLines' = nLines]_vars
  /\ [](Running /\ pcM \in {"return", "exit"} =>
          ENABLED (MainDeferredKill \/ MainReturn))
  /\ [](pcM \in {"exit", "done"} /\ exitCause # "launch" => StreamClosed)
  /\ [](exitCause = "stream" => pcM = "done" /\ exitStatus = "exit0")

\* the program has ended by main's return after the stream closed, while
\* pollIoreg was still waiting for its ioreg command
C12_Witness ==
  /\ exitCause = "stream"
  /\ proc = "exited"
  /\ pcS = "output"
  /\ nLines > 0

\* the pattern of each boolean field
BoolPatternOf == [IsCharging |-> "charging", OnAC |-> "external"]

\* C13: a step of main or render leaves the eight slow fields as they were,
\* a step of pollIoreg leaves the five fast fields as they were, a step of
\* render changes no field, and a field changes only in a step inside a
\* write section; a slow field changes only in the step of its own pattern
\* and only when the dump at hand matches it with a plausible value, so that
\* it keeps its value across lines, renders and cycles that failed or
\* matched nothing.
C13_DisjointFieldGroups ==
  /\ [][pcM' # pcM => \A f \in SlowFields : data'[f] = data[f]]_vars
  /\ [][pcS' # pcS => \A f \in FastFields : data'[f] = data[f]]_vars
  /\ [][(pcM \in RenderPcs /\ pcM' # pcM) => data' = data]_vars
  /\ [][data' # data =>
          \/ pcM \in MainWritePcs /\ pcM' # pcM
          \/ pcS \in PollWritePcs /\ pcS' # pcS]_vars
  /\ [][\A f \in SlowInts :
          data'[f] # data[f] => pcS = PatternOf[f] /\ ~slowErr /\ Plausible(f, s)]_vars
  /\ [][\A f \in SlowBools :
          data'[f] # data[f] =>
            /\ pcS = BoolPatternOf[f]
            /\ ~slowErr
            /\ FindStringSubmatch(patterns[BoolPatternOf[f]], s) # <<>>]_vars

\* the values of a valid dump are still there after a line was committed, a
\* render has returned and a second cycle has failed
C13_Witness ==
  /\ pcS = "sleep" /\ nPolls = 2 /\ slowErr
  /\ data["ChargerWatts"] = 65
  /\ data["BatteryVoltage"] = 12500
  /\ data["CPUPower"] # 0
  /\ nRenders >= 1

\* C14: when the same line is processed again right after it was processed,
\* or the same dump in the next cycle, the snapshot at the end of the later
\* write section equals the snapshot the earlier one committed, whatever the
\* snapshot was before the first.
C14_Idempotence ==
  /\ (call.fn = "line" /\ pcM = "unlock" /\ wid["main"] >= 2) => data = committed
  /\ (call.fn = "dump" /\ pcS = "unlock" /\ wid["poll"] >= 2) => data = committed

\* "CPU Power: 250 mW" has been processed a second time, from a snapshot
\* that held another value, and it changed the snapshot the first time
C14_Witness ==
  /\ call.fn = "line"
  /\ call.in = Line(FALSE, "CPU Power:", t250, "mW")
  /\ call.start = SnapAC
  /\ pcM = "unlock" /\ wid["main"] = 2
  /\ data # call.start

\* how many times the rune c occurs in t
CountOf(t, c) == Cardinality({i \in 1..Len(t) : t[i] = c})

\* C15: the bar splitBar returns has exactly width cells, the two segments
\* taken together, for every sysPct and batPct, below 0 and above 100
\* included, and every width >= 0.
C15_SplitBarSumsToWidth ==
  call.fn = "splitBar" => CountOf(call.out, Full) = call.in.width

\* C16: the bar colorBar returns has exactly width cells, filled and empty
\* taken together, for every pct, below 0 and above 100 included; the filled
\* cells come first and are floor(p * width / 100) many, p being pct clamped
\* to 0..100: none for pct <= 0 and all of them for pct >= 100.
C16_ColorBarWidth ==
  call.fn = "colorBar" =>
    LET pct    == call.in.pct
        width  == call.in.width
        p      == IF pct < 0 THEN 0 ELSE IF pct > 100 THEN 100 ELSE pct
        filled == CountOf(call.out, Full)
        empty  == CountOf(call.out, Light)
    IN  /\ filled + empty = width
        /\ filled = (p * width) \div 100
        /\ pct <= 0 => filled = 0
        /\ pct >= 100 => filled = width
        /\ call.out = call.in.color \o Repeat(Full, filled) \o Reset
                        \o Dim \o Repeat(Light, empty) \o Reset

\* a bar of 44 cells asked for 120 percent
C16_Witness ==
  /\ call.fn = "colorBar"
  /\ call.in.pct = 120 /\ call.in.width = 44
  /\ CountOf(call.out, Full) = 44

\* the spaces line has put between the content and the closing border
PadOf(c) == Len(c.out) - Len(Content(c.in.n, c.in.style)) - 4

\* C17 as stated: between the borders of the row line returns, the content
\* and the padding are 52 visible runes together, for contents shorter and
\* longer than 52 alike.
C17_InteriorIsLineWidth ==
  call.fn = "line" => call.in.n + PadOf(call) = LineWidth

\* C17 amended: the row is the border, the whole content and the padding;
\* the padding brings a content of at most 52 visible runes to exactly 52,
\* colour sequences not counted, and is empty for a longer content, which
\* is kept whole, so that the visible length is then the content's own.
C17_PaddedNeverTruncated ==
  call.fn = "line" =>
    LET n   == call.in.n
        pad == PadOf(call)
    IN  /\ call.out = <<Border, " ">> \o Content(n, call.in.style)
                        \o Repeat(" ", pad) \o <<" ", Border>>
        /\ pad = IF n <= LineWidth THEN LineWidth - n ELSE 0
        /\ n + pad = IF n <= LineWidth THEN LineWidth ELSE n

\* a coloured content of 60 visible runes came back whole, without padding
C17_Witness ==
  /\ call.fn = "line"
  /\ call.in = [n |-> 60, style |-> "colored"]
  /\ PadOf(call) = 0
  /\ Len(call.out) = 60 + Len(Magenta) + Len(Reset) + 4

\* the rows t holds
Rows(t) == {t[i] : i \in 1..Len(t)}

\* C18: render draws the split bar exactly when OnAC is true and
\* ChargerWatts > 0; batteryPct is then the battery's share of the charger
\* watts in percent, truncated and clamped to 0..100 (a share that is a
\* whole number can come out one lower, the share being computed in
\* floating point), systemPct = 100 - batteryPct, both from 0 to 100, and
\* the bar has 40 cells; off AC only the drain, minus the battery watts, is
\* shown, and neither the charger nor the split.
C18_PowerSplit ==
  call.fn = "power" =>
    LET d     == call.in
        o     == call.out
        watts == d.BatteryVoltage * d.BatteryAmps
        den   == 10000 * d.ChargerWatts
        drawn == "bar" \in Rows(o.rows)
    IN  /\ drawn <=> (d.OnAC /\ d.ChargerWatts > 0)
        /\ drawn =>
             /\ o.batteryPct \in 0..100
             /\ o.systemPct \in 0..100
             /\ o.systemPct + o.batteryPct = 100
             /\ o.batteryPct > 0 => watts >= o.batteryPct * den
             /\ o.batteryPct < 100 => watts <= (o.batteryPct + 1) * den
             /\ CountOf(o.bar, Full) = 40
             /\ o.bar = splitBar(o.systemPct, o.batteryPct, 40)
        /\ d.OnAC => {"CHARGER", "POWER SPLIT"} \subseteq Rows(o.rows)
        /\ ~d.OnAC =>
             /\ o.rows = <<"ON BATTERY", "Drain">>
             /\ o.drainW = -watts

\* on AC with the battery discharging: the share is clamped to 0 and the
\* whole bar is the system's
C18_Witness ==
  /\ call.fn = "power"
  /\ call.in.OnAC /\ call.in.ChargerWatts = 65
  /\ call.in.BatteryVoltage = 12500 /\ call.in.BatteryAmps = -1200
  /\ call.out.batteryPct = 0 /\ call.out.systemPct = 100
  /\ call.out.bar = Cyan \o Repeat(Full, 40) \o Reset \o Yellow \o Reset

\* main, or pollIoreg, is inside Lock or RLock of the running program and
\* cannot get past it now
MainWaiting ==
  /\ Running
  /\ pcM \in {"lock", "lockwait", "rlock"}
  /\ ~ENABLED (MainLock \/ MainLocked \/ RenderRLock)

PollWaiting ==
  /\ Running
  /\ pcS \in {"lock", "lockwait"}
  /\ ~ENABLED (PollLock \/ PollLocked)

\* C19: main holds the writer side exactly from Lock to Unlock and the
\* reader side exactly from RLock to RUnlock, pollIoreg the writer side
\* exactly from Lock to Unlock, whatever the line or the dump matches; render
\* is entered from the delimiter test only, with the writer side released;
\* a section is left only through its Unlock or RUnlock, and no step inside
\* a section waits for anything; main and pollIoreg never both wait for the
\* lock, and when one of them waits the other one can take a step.
C19_DeadlockFreedom ==
  /\ [](mu.w = "main" <=> pcM \in {"lockwait"} \cup MainWritePcs)
  /\ [](mu.w = "poll" <=> pcS \in {"lockwait"} \cup PollWritePcs)
  /\ [](mu.r = IF pcM \in ReadPcs THEN {"main"} ELSE {})
  /\ [](pcM \in RenderPcs => mu.w # "main")
  /\ [][(pcM # "rlock" /\ pcM' = "rlock") => pcM = "prefix" /\ mu.w # "main"]_vars
  /\ [][(pcM \in MainWritePcs /\ pcM' \notin MainWritePcs) =>
          pcM = "unlock" /\ mu'.w = "none"]_vars
  /\ [][(pcS \in PollWritePcs /\ pcS' \notin PollWritePcs) =>
          pcS = "unlock" /\ mu'.w = "none"]_vars
  /\ [][(pcM \in ReadPcs /\ pcM' \notin ReadPcs) =>
          pcM = "runlock" /\ mu'.r = {}]_vars
  /\ [](Running /\ pcM \in MainWritePcs \cup ReadPcs => ENABLED MainRun)
  /\ [](Running /\ pcS \in PollWritePcs => ENABLED PollRun)
  /\ [](~(MainWaiting /\ PollWaiting))
  /\ [](MainWaiting => ENABLED PollRun)
  /\ [](PollWaiting => ENABLED MainRun)

\* main is at the end of the write section of a line that matched nothing,
\* and pollIoreg waits in Lock with a dump
C19_Witness ==
  /\ pcM = "unlock"
  /\ text = StarLine
  /\ wset["main"] = {}
  /\ pcS = "lock"
  /\ PollWaiting

\* C20: pollIoreg holds no part of the lock while its ioreg command runs or
\* while it sleeps, and main holds none while it waits in scanner.Scan() for
\* the next line.  So, whether or not the ioreg command ever returns, a
\* line that has been read is committed and main comes back to Scan with
\* every delimiter line rendered; and a dump that was obtained is committed
\* by the Unlock that ends its write section, unless the program ends first.
C20_NoLockAcrossBlockingWait ==
  /\ [](pcS \in {"exec", "output", "sleep"} =>
          mu.w # "poll" /\ "poll" \notin mu.r)
  /\ [](pcM = "scan" => mu.w # "main" /\ "main" \notin mu.r)
  /\ [](pcM = "scan" => committed = data \/ mu.w = "poll")
  /\ [](pcM = "scan" => nRenders = nDelims)
  /\ pcM = "lock" ~> pcM = "prefix"
  /\ pcM = "prefix" ~> pcM = "scan"
  /\ pcS = "lock" ~> (pcS = "sleep" \/ ~Running)
  /\ [][(pcS = "unlock" /\ pcS' = "sleep") =>
          committed' = data /\ mu'.w = "none"]_vars

\* the first dump has been committed and the second ioreg command has not
\* returned; meanwhile main has committed two lines and finished a render,
\* and waits for the next line
C20_Witness ==
  /\ pcS = "output"
  /\ nPolls = 2
  /\ committed["ChargerWatts"] # 0
  /\ pcM = "scan"
  /\ nLines = 2
  /\ nRenders = 1
  /\ committed["CPUPower"] # 0

====
